---- MODULE Spec2Model ----
(***************************************************************************)
(* Verification model of the KDD20 hands-on tutorial notebooks:            *)
(*   4-large_graph/3 - Single Machine Multiple GPU Training.ipynb          *)
(*   4-large_graph/2 - Unsupervised Learning and Link Prediction.ipynb     *)
(*   5-distributed/2-basic.ipynb                                           *)
(* One group of variables per notebook component; one specification per    *)
(* component.  A component that a specification does not exercise stays in *)
(* its idle state.                                                         *)
(***************************************************************************)
EXTENDS Integers, Sequences, FiniteSets, TLC

VARIABLES
    \* create_dataloader called once per rank (multi-GPU notebook)
    p_world_size, p_nids, p_loaders,
    \* NegativeSampler (link-prediction notebook)
    n_graph, n_k, n_weights, n_eids, n_result,
    \* link-prediction training loop
    l_pc, l_num_edges, l_epoch, l_step, l_params, l_best_accuracy, l_model_pt,
    l_raised,
    \* multi-GPU training: main cell and the train() processes
    m_pc, m_started, m_joined, d_train_len,
    d_pc, d_epoch, d_step, d_arrived, d_nbarrier, d_params,
    d_best_accuracy, d_model_pt, d_seen, d_first_at_max,
    \* sampler blocks and SAGE.forward
    f_notebook, f_fanouts, f_n_layers, f_layers, f_pc, f_block_id, f_blocks,
    f_l, f_applied,
    \* distributed-basics notebook
    b_cell, b_initialized, b_calls, b_num_nodes, b_arr, b_ndata,
    b_emb_made, b_opt_made, b_printed

partVars == <<p_world_size, p_nids, p_loaders>>
negVars == <<n_graph, n_k, n_weights, n_eids, n_result>>
linkVars == <<l_pc, l_num_edges, l_epoch, l_step, l_params, l_best_accuracy,
              l_model_pt, l_raised>>
ddpVars == <<m_pc, m_started, m_joined, d_train_len, d_pc, d_epoch, d_step,
             d_arrived, d_nbarrier, d_params, d_best_accuracy, d_model_pt,
             d_seen, d_first_at_max>>
fwdVars == <<f_notebook, f_fanouts, f_n_layers, f_layers, f_pc, f_block_id,
             f_blocks, f_l, f_applied>>
basicVars == <<b_cell, b_initialized, b_calls, b_num_nodes, b_arr,
               b_ndata, b_emb_made, b_opt_made, b_printed>>
vars == <<partVars, negVars, linkVars, ddpVars, fwdVars, basicVars>>

\* what an action of one component leaves alone: the other components
notPart == <<negVars, linkVars, ddpVars, fwdVars, basicVars>>
notNeg == <<partVars, linkVars, ddpVars, fwdVars, basicVars>>
notLink == <<partVars, negVars, ddpVars, fwdVars, basicVars>>
notDdp == <<partVars, negVars, linkVars, fwdVars, basicVars>>
notFwd == <<partVars, negVars, linkVars, ddpVars, basicVars>>
notBasic == <<partVars, negVars, linkVars, ddpVars, fwdVars>>

(***************************************************************************)
(* Python helpers                                                          *)
(***************************************************************************)
Min(a, b) == IF a < b THEN a ELSE b

Max(a, b) == IF a < b THEN b ELSE a

\* s[a:b] for 0 <= a, 0 <= b on a 0-indexed Python sequence: the bounds are
\* clamped to len(s), and an empty range gives the empty sequence.
PySlice(s, a, b) ==
    LET lo == Min(a, Len(s))
        hi == Min(b, Len(s))
    IN  IF hi <= lo THEN <<>> ELSE SubSeq(s, lo + 1, hi)

\* ceil(n / d): the number of minibatches of a loader with drop_last=False
CeilDiv(n, d) == (n + d - 1) \div d

Range(s) == {s[i] : i \in 1..Len(s)}

\* the sequences over S without repetition, of length lo..hi
InjSeqs(S, lo, hi) ==
    UNION {{s \in [1..n -> S] : \A i, j \in 1..n : i # j => s[i] # s[j]} :
           n \in lo..hi}

(***************************************************************************)
(* Multi-GPU notebook: create_dataloader                                   *)
(***************************************************************************)
\* bounds of the partitioning specification
MaxNids == 5

MaxWorld == 3

\* batch_size=1024 of the NodeDataLoader and of the EdgeDataLoader
batch_size == 1024

\* MultiLayerNeighborSampler([4, 4, 4])
SamplerFanouts == <<4, 4, 4>>

\* a plausible slip: the rank itself used as the offset
PartitionOffsetByRank(partition_size, rank) == rank

\* partition_offset = partition_size * rank
PartitionOffset(partition_size, rank) == partition_size * rank

\* partition_size = len(nids) // world_size
PartitionSize(nids, world_size) == Len(nids) \div world_size

\* create_dataloader(rank, world_size, graph, nids): the loader iterates over
\* nids[partition_offset:partition_offset+partition_size] in minibatches of
\* batch_size, keeping the last short one (drop_last=False).
create_dataloader(rank, world_size, nids) ==
    LET partition_size == PartitionSize(nids, world_size)
        partition_offset == PartitionOffset(partition_size, rank)
        part == PySlice(nids, partition_offset, partition_offset + partition_size)
    IN  [partition_size |-> partition_size,
         partition_offset |-> partition_offset,
         nids |-> part,
         fanouts |-> SamplerFanouts,
         num_batches |-> CeilDiv(Len(part), batch_size)]

PartIdle ==
    /\ p_world_size = 0
    /\ p_nids = <<>>
    /\ p_loaders = <<>>

\* any world size and any list of distinct node IDs; no loader created yet
\* (p_loaders maps the ranks that have created their loader to it)
PartInit ==
    /\ p_world_size \in 1..MaxWorld
    /\ p_nids \in InjSeqs(0..(MaxNids - 1), 0, MaxNids)
    /\ p_loaders = <<>>

\* the worker of one rank creates its training data loader
CreateDataloader(rank) ==
    /\ p_world_size > 0
    /\ rank \in 0..(p_world_size - 1)
    /\ rank \notin DOMAIN p_loaders
    /\ p_loaders' = p_loaders @@ (rank :> create_dataloader(rank, p_world_size, p_nids))
    /\ UNCHANGED <<p_world_size, p_nids>>
    /\ UNCHANGED notPart

PartNext ==
    \E rank \in 0..(MaxWorld - 1) : CreateDataloader(rank)

(***************************************************************************)
(* Link-prediction notebook: NegativeSampler                               *)
(***************************************************************************)
\* bounds of the negative-sampler specification
NegNodes == 3

MaxNegEdges == 2

MaxK == 2

MaxDraws == 4

\* A graph is its edge list; edge ID e is the edge at position e + 1, an
\* edge is <<source, destination>>.
Src(e) == e[1]

Dst(e) == e[2]

EdgeSet(g) == Range(g)

\* the simple directed graphs on `nodes` with lo..hi edges, edge IDs given in
\* the order of (source, destination)
Graphs(nodes, lo, hi) ==
    LET n == Cardinality(nodes)
        code(e) == Src(e) * n + Dst(e)
    IN  {g \in InjSeqs(nodes \X nodes, lo, hi) :
            \A i \in 1..(Len(g) - 1) : code(g[i]) < code(g[i + 1])}

\* g.in_degrees()
in_degrees(g, nodes) ==
    [v \in nodes |-> Cardinality({i \in 1..Len(g) : Dst(g[i]) = v})]

\* g.in_degrees().float() ** 0.75, kept exactly as its fourth power d^3
\* (the weight is 0 exactly when the in-degree is 0)
Weights(g, nodes) ==
    LET d == in_degrees(g, nodes) IN [v \in nodes |-> d[v] * d[v] * d[v]]

\* g.find_edges(eids): the sources and the destinations of the edges
find_edges(g, eids) ==
    [src |-> [i \in 1..Len(eids) |-> Src(g[eids[i] + 1])],
     dst |-> [i \in 1..Len(eids) |-> Dst(g[eids[i] + 1])]]

\* a plausible slip: Tensor.repeat(k), the whole sequence k times over
RepeatTiled(s, k) ==
    [i \in 1..(Len(s) * k) |-> s[((i - 1) % Len(s)) + 1]]

RECURSIVE Copies(_, _)
Copies(x, k) == IF k = 0 THEN <<>> ELSE <<x>> \o Copies(x, k - 1)

RECURSIVE RepeatEach(_, _)
RepeatEach(s, k) ==
    IF s = <<>> THEN <<>> ELSE Copies(Head(s), k) \o RepeatEach(Tail(s), k)

\* Tensor.repeat_interleave(k): every element k times, in order
repeat_interleave(s, k) == RepeatEach(s, k)

\* weights.multinomial(num, replacement=True): every sequence of num indices
\* of positive weight can be drawn
multinomial(weights, num) ==
    [1..num -> {v \in DOMAIN weights : weights[v] > 0}]

\* the (src, dst) pairs NegativeSampler.__call__(g, eids) can return
NegativeSamplerCall(k, weights, g, eids) ==
    LET src == repeat_interleave(find_edges(g, eids).src, k)
    IN  {[src |-> src, dst |-> dst] : dst \in multinomial(weights, Len(src))}

NegIdle ==
    /\ n_graph = <<>>
    /\ n_k = 0
    /\ n_weights = <<>>
    /\ n_eids = <<>>
    /\ n_result = <<>>

NegInit ==
    /\ n_graph \in Graphs(0..(NegNodes - 1), 1, MaxNegEdges)
    /\ n_k = 0
    /\ n_weights = <<>>
    /\ n_eids = <<>>
    /\ n_result = <<>>

\* NegativeSampler(g, k)
NegativeSamplerNew(k) ==
    /\ n_graph # <<>>
    /\ n_k = 0
    /\ n_k' = k
    /\ n_weights' = Weights(n_graph, 0..(NegNodes - 1))
    /\ UNCHANGED <<n_graph, n_eids, n_result>>
    /\ UNCHANGED notNeg

\* the edge data loader hands the sampler a minibatch of distinct edge IDs
NegativeSamplerCalled(eids) ==
    /\ n_k > 0
    /\ n_result = <<>>
    /\ n_k * Len(eids) <= MaxDraws
    /\ n_eids' = eids
    /\ \E pairs \in NegativeSamplerCall(n_k, n_weights, n_graph, eids) :
           n_result' = <<pairs>>
    /\ UNCHANGED <<n_graph, n_k, n_weights>>
    /\ UNCHANGED notNeg

NegNext ==
    \/ \E k \in 1..MaxK : NegativeSamplerNew(k)
    \/ \E eids \in InjSeqs(0..(Len(n_graph) - 1), 1, Len(n_graph)) :
           NegativeSamplerCalled(eids)

(***************************************************************************)
(* Link-prediction notebook: the training loop                             *)
(***************************************************************************)
\* bounds: the number of edges of the graph, and the scale on which an
\* accuracy is measured (0..MaxAcc stands for 0.0 .. 1.0)
MaxLinkEdges == 2050

MaxAcc == 2

\* for epoch in range(10)
LinkEpochs == 10

\* def evaluate(emb, label, train_nids, valid_nids, test_nids): five
\* positional parameters, none with a default
EvaluateParams == <<"emb", "label", "train_nids", "valid_nids", "test_nids">>

\* evaluate(emb.numpy(), node_labels.numpy()): the arguments of the call
EvaluateArgs == <<"emb.numpy()", "node_labels.numpy()">>

\* a Python call with positional arguments only binds when every parameter
\* without a default gets an argument and no argument is left over
CallBinds(params, args) == Len(args) = Len(params)

\* if best_accuracy < valid_acc
LinkImproves(best_accuracy, valid_acc) == best_accuracy < valid_acc

\* EdgeDataLoader(graph, arange(number_of_edges), batch_size=1024,
\* drop_last=False): minibatches per epoch
LinkNumBatches(num_edges) == CeilDiv(num_edges, batch_size)

LinkIdle ==
    /\ l_pc = "idle"
    /\ l_num_edges = 0
    /\ l_epoch = 0
    /\ l_step = 0
    /\ l_params = 0
    /\ l_best_accuracy = 0
    /\ l_model_pt = <<>>
    /\ l_raised = ""

\* best_accuracy = 0; the loop is about to start epoch 0
LinkInit ==
    /\ l_pc = "train"
    /\ l_num_edges \in 1..MaxLinkEdges
    /\ l_epoch = 0
    /\ l_step = 0
    /\ l_params = 0
    /\ l_best_accuracy = 0
    /\ l_model_pt = <<>>
    /\ l_raised = ""

\* one minibatch: forward, loss, opt.zero_grad(), loss.backward(), opt.step()
LinkTrainStep ==
    /\ l_pc = "train"
    /\ l_step < LinkNumBatches(l_num_edges)
    /\ l_step' = l_step + 1
    /\ l_params' = l_params + 1
    /\ UNCHANGED <<l_pc, l_num_edges, l_epoch, l_best_accuracy, l_model_pt,
                   l_raised>>
    /\ UNCHANGED notLink

\* after the last minibatch of the epoch: model.eval(), inference, the call
\* of evaluate, the comparison with best_accuracy and torch.save
LinkEvaluate ==
    /\ l_pc = "train"
    /\ l_step = LinkNumBatches(l_num_edges)
    /\ IF ~CallBinds(EvaluateParams, EvaluateArgs)
       THEN \* TypeError: evaluate() missing required positional arguments
            /\ l_raised' = "TypeError"
            /\ l_pc' = "raised"
            /\ UNCHANGED <<l_epoch, l_step, l_best_accuracy, l_model_pt>>
       ELSE \E valid_acc \in 0..MaxAcc :
            /\ l_raised' = ""
            /\ IF LinkImproves(l_best_accuracy, valid_acc)
               THEN /\ l_best_accuracy' = valid_acc
                    /\ l_model_pt' = <<[epoch |-> l_epoch, params |-> l_params]>>
               ELSE UNCHANGED <<l_best_accuracy, l_model_pt>>
            /\ l_epoch' = l_epoch + 1
            /\ l_step' = 0
            /\ l_pc' = IF l_epoch + 1 < LinkEpochs THEN "train" ELSE "done"
    /\ UNCHANGED <<l_num_edges, l_params>>
    /\ UNCHANGED notLink

LinkNext ==
    \/ LinkTrainStep
    \/ LinkEvaluate

(***************************************************************************)
(* Multi-GPU notebook: the main cell and train(rank, world_size, data)     *)
(***************************************************************************)
\* bound: the number of training node IDs in data.pkl
MaxTrain == 4

\* for proc_id in range(4): mp.Process(target=train, args=(proc_id, 4, data))
WorldSize == 4

\* for epoch in range(10)
DdpEpochs == 10

Ranks == 0..(WorldSize - 1)

\* train_nids as loaded: d_train_len distinct node IDs
TrainNids(len) == [i \in 1..len |-> i - 1]

\* train_dataloader = create_dataloader(rank, world_size, graph, train_nids)
TrainLoader(rank, len) == create_dataloader(rank, WorldSize, TrainNids(len))

\* a plausible slip: the closing barrier indented into `if rank == 0:`
SecondBarrierOnlyRankZero(rank) == rank = 0

\* the torch.distributed.barrier() closing the epoch is at the level of the
\* loop body: every rank calls it
CallsSecondBarrier(rank) == TRUE

\* a plausible slip: <= for <
DdpImprovesOrEqual(best_accuracy, accuracy) == best_accuracy <= accuracy

\* if best_accuracy < accuracy
DdpImproves(best_accuracy, accuracy) == best_accuracy < accuracy

\* if rank == 0: (the validation block)
Validates(rank) == rank = 0

\* A collective (init_process_group's rendezvous, barrier, the gradient
\* all-reduce of DistributedDataParallel's backward) returns on a rank once
\* every rank of the group has entered as many collectives as that rank.
Released(rank) == \A q \in Ranks : d_arrived[q] >= d_arrived[rank]

SetMax(S) == CHOOSE x \in S : \A y \in S : y <= x

DdpIdle ==
    /\ m_pc = "idle"
    /\ m_started = 0
    /\ m_joined = 0
    /\ d_train_len = 0
    /\ d_pc = <<>>
    /\ d_epoch = <<>>
    /\ d_step = <<>>
    /\ d_arrived = <<>>
    /\ d_nbarrier = <<>>
    /\ d_params = <<>>
    /\ d_best_accuracy = 0
    /\ d_model_pt = <<>>
    /\ d_seen = {}
    /\ d_first_at_max = -1

\* the main cell has loaded the data and is about to start the processes;
\* train_nids has one node per rank, or one node short of that
DdpInit ==
    /\ m_pc = "spawn"
    /\ m_started = 0
    /\ m_joined = 0
    /\ d_train_len \in (MaxTrain - 1)..MaxTrain
    /\ d_pc = [r \in Ranks |-> "unstarted"]
    /\ d_epoch = [r \in Ranks |-> 0]
    /\ d_step = [r \in Ranks |-> 0]
    /\ d_arrived = [r \in Ranks |-> 0]
    /\ d_nbarrier = [r \in Ranks |-> 0]
    /\ d_params = [r \in Ranks |-> 0]
    /\ d_best_accuracy = 0
    /\ d_model_pt = <<>>
    /\ d_seen = {}
    /\ d_first_at_max = -1

rankLocals == <<d_best_accuracy, d_model_pt, d_seen, d_first_at_max>>

mainVars == <<m_pc, m_started, m_joined>>

\* p = mp.Process(target=train, args=(proc_id, 4, data)); p.start()
MainStart ==
    /\ m_pc = "spawn"
    /\ m_started < WorldSize
    /\ d_pc' = [d_pc EXCEPT ![m_started] = "start"]
    /\ m_started' = m_started + 1
    /\ m_pc' = IF m_started + 1 = WorldSize THEN "join" ELSE "spawn"
    /\ UNCHANGED <<m_joined, d_train_len, d_epoch, d_step, d_arrived,
                   d_nbarrier, d_params, rankLocals>>
    /\ UNCHANGED notDdp

\* for p in procs: p.join()
MainJoin ==
    /\ m_pc = "join"
    /\ m_joined < WorldSize
    /\ d_pc[m_joined] = "done"
    /\ m_joined' = m_joined + 1
    /\ m_pc' = IF m_joined + 1 = WorldSize THEN "joined" ELSE "join"
    /\ UNCHANGED <<m_started, d_train_len, d_pc, d_epoch, d_step, d_arrived,
                   d_nbarrier, d_params, rankLocals>>
    /\ UNCHANGED notDdp

\* torch.distributed.init_process_group(...): the rank enters the rendezvous
InitProcessGroup(rank) ==
    /\ d_pc[rank] = "start"
    /\ d_arrived' = [d_arrived EXCEPT ![rank] = @ + 1]
    /\ d_pc' = [d_pc EXCEPT ![rank] = "wait_init"]
    /\ UNCHANGED <<mainVars, d_train_len, d_epoch, d_step, d_nbarrier,
                   d_params, rankLocals>>
    /\ UNCHANGED notDdp

\* set_device, the two data loaders, init_model, the optimizer, and the
\* first torch.distributed.barrier()
Setup(rank) ==
    /\ d_pc[rank] = "wait_init"
    /\ Released(rank)
    /\ d_arrived' = [d_arrived EXCEPT ![rank] = @ + 1]
    /\ d_nbarrier' = [d_nbarrier EXCEPT ![rank] = @ + 1]
    /\ d_pc' = [d_pc EXCEPT ![rank] = "wait_barrier0"]
    /\ UNCHANGED <<mainVars, d_train_len, d_epoch, d_step, d_params,
                   rankLocals>>
    /\ UNCHANGED notDdp

\* best_accuracy = 0; for epoch in range(10): model.train()
EnterLoop(rank) ==
    /\ d_pc[rank] = "wait_barrier0"
    /\ Released(rank)
    /\ d_epoch' = [d_epoch EXCEPT ![rank] = 0]
    /\ d_step' = [d_step EXCEPT ![rank] = 0]
    /\ d_pc' = [d_pc EXCEPT ![rank] = "train"]
    /\ UNCHANGED <<mainVars, d_train_len, d_arrived, d_nbarrier, d_params,
                   rankLocals>>
    /\ UNCHANGED notDdp

\* one minibatch up to loss.backward(), whose gradient all-reduce is a
\* collective of the process group
TrainBackward(rank) ==
    /\ d_pc[rank] = "train"
    /\ d_step[rank] < TrainLoader(rank, d_train_len).num_batches
    /\ d_arrived' = [d_arrived EXCEPT ![rank] = @ + 1]
    /\ d_pc' = [d_pc EXCEPT ![rank] = "wait_allreduce"]
    /\ UNCHANGED <<mainVars, d_train_len, d_epoch, d_step, d_nbarrier,
                   d_params, rankLocals>>
    /\ UNCHANGED notDdp

\* opt.step() and the rest of the minibatch
TrainOptStep(rank) ==
    /\ d_pc[rank] = "wait_allreduce"
    /\ Released(rank)
    /\ d_params' = [d_params EXCEPT ![rank] = @ + 1]
    /\ d_step' = [d_step EXCEPT ![rank] = @ + 1]
    /\ d_pc' = [d_pc EXCEPT ![rank] = "train"]
    /\ UNCHANGED <<mainVars, d_train_len, d_epoch, d_arrived, d_nbarrier,
                   rankLocals>>
    /\ UNCHANGED notDdp

\* the loader is exhausted: torch.distributed.barrier() after the minibatches
EndOfMinibatches(rank) ==
    /\ d_pc[rank] = "train"
    /\ d_step[rank] = TrainLoader(rank, d_train_len).num_batches
    /\ d_arrived' = [d_arrived EXCEPT ![rank] = @ + 1]
    /\ d_nbarrier' = [d_nbarrier EXCEPT ![rank] = @ + 1]
    /\ d_pc' = [d_pc EXCEPT ![rank] = "wait_barrier1"]
    /\ UNCHANGED <<mainVars, d_train_len, d_epoch, d_step, d_params,
                   rankLocals>>
    /\ UNCHANGED notDdp

\* the end of the loop body: the next epoch, or the end of train()
NextEpoch(rank) ==
    /\ d_epoch' = [d_epoch EXCEPT ![rank] = @ + 1]
    /\ d_step' = [d_step EXCEPT ![rank] = 0]
    /\ d_pc' = [d_pc EXCEPT ![rank] =
                  IF d_epoch[rank] + 1 < DdpEpochs THEN "train" ELSE "done"]

\* the closing torch.distributed.barrier() of the loop body, where the rank
\* calls it
SecondBarrier(rank) ==
    IF CallsSecondBarrier(rank)
    THEN /\ d_arrived' = [d_arrived EXCEPT ![rank] = @ + 1]
         /\ d_nbarrier' = [d_nbarrier EXCEPT ![rank] = @ + 1]
         /\ d_pc' = [d_pc EXCEPT ![rank] = "wait_barrier2"]
         /\ UNCHANGED <<d_epoch, d_step>>
    ELSE /\ NextEpoch(rank)
         /\ UNCHANGED <<d_arrived, d_nbarrier>>

\* a rank other than 0 leaves the barrier, skips the validation block and
\* goes to the closing barrier
SkipValidation(rank) ==
    /\ d_pc[rank] = "wait_barrier1"
    /\ Released(rank)
    /\ ~Validates(rank)
    /\ SecondBarrier(rank)
    /\ UNCHANGED <<mainVars, d_train_len, d_params, rankLocals>>
    /\ UNCHANGED notDdp

\* rank 0 leaves the barrier and enters the validation block: model.eval()
StartValidation(rank) ==
    /\ d_pc[rank] = "wait_barrier1"
    /\ Released(rank)
    /\ Validates(rank)
    /\ d_pc' = [d_pc EXCEPT ![rank] = "validate"]
    /\ UNCHANGED <<mainVars, d_train_len, d_epoch, d_step, d_arrived,
                   d_nbarrier, d_params, rankLocals>>
    /\ UNCHANGED notDdp

\* the validation block with `accuracy` the accuracy on the validation set
\* (valid_nids is not empty): the comparison with best_accuracy, torch.save,
\* then the closing barrier
ValidationBlock(rank, accuracy) ==
    /\ d_pc[rank] = "validate"
    /\ IF DdpImproves(d_best_accuracy, accuracy)
       THEN /\ d_best_accuracy' = accuracy
            /\ d_model_pt' = <<[epoch |-> d_epoch[rank],
                                params |-> d_params[rank]]>>
       ELSE UNCHANGED <<d_best_accuracy, d_model_pt>>
    /\ SecondBarrier(rank)
    /\ UNCHANGED <<mainVars, d_train_len, d_params>>

\* the record of what a validation showed: the accuracies seen so far, and
\* the first epoch that showed the largest of them
Observe(rank, accuracy) ==
    /\ d_seen' = d_seen \cup {accuracy}
    /\ d_first_at_max' =
           IF \A a \in d_seen : a < accuracy
           THEN d_epoch[rank] ELSE d_first_at_max

\* the validation of one epoch, recorded
Validate(rank) ==
    /\ UNCHANGED notDdp
    /\ \E accuracy \in 0..MaxAcc :
           ValidationBlock(rank, accuracy) /\ Observe(rank, accuracy)

\* the validation of one epoch, not recorded
ValidateUnrecorded(rank) ==
    /\ UNCHANGED notDdp
    /\ \E accuracy \in 0..MaxAcc : ValidationBlock(rank, accuracy)
    /\ UNCHANGED <<d_seen, d_first_at_max>>

\* the rank leaves the closing barrier: next epoch, or train() returns
EndOfEpoch(rank) ==
    /\ d_pc[rank] = "wait_barrier2"
    /\ Released(rank)
    /\ NextEpoch(rank)
    /\ UNCHANGED <<mainVars, d_train_len, d_arrived, d_nbarrier, d_params,
                   rankLocals>>
    /\ UNCHANGED notDdp

\* the steps of train() outside the validation block
TrainStep(rank) ==
    \/ InitProcessGroup(rank)
    \/ Setup(rank)
    \/ EnterLoop(rank)
    \/ TrainBackward(rank)
    \/ TrainOptStep(rank)
    \/ EndOfMinibatches(rank)
    \/ SkipValidation(rank)
    \/ StartValidation(rank)
    \/ EndOfEpoch(rank)

RankStep(rank) ==
    \/ TrainStep(rank)
    \/ Validate(rank)

RankStepUnrecorded(rank) ==
    \/ TrainStep(rank)
    \/ ValidateUnrecorded(rank)

MainStep ==
    \/ MainStart
    \/ MainJoin

DdpNext ==
    \/ MainStep
    \/ \E rank \in Ranks : RankStep(rank)

DdpNextUnrecorded ==
    \/ MainStep
    \/ \E rank \in Ranks : RankStepUnrecorded(rank)

(***************************************************************************)
(* Sampler blocks and SAGE.forward (both notebooks)                        *)
(***************************************************************************)
\* bounds: the number of layers and the fanouts tried
MaxLayers == 3

MaxFanout == 4

\* init_model(rank, num_features, 128, num_classes, 3) and
\* SAGE(node_features.shape[1], 128, 3)
ModelLayers == 3

Notebooks == {"multi_gpu", "link_prediction"}

RECURSIVE HiddenLayers(_)
HiddenLayers(n) ==
    IF n <= 0 THEN <<>> ELSE <<"SAGEConv(n_hidden, n_hidden)">> \o HiddenLayers(n - 1)

\* a plausible slip: the multi-GPU SAGE with the loop bound of the
\* link-prediction one
HiddenCountNoOutputLayer(notebook, n_layers) == n_layers - 1

\* for i in range(1, n_layers - 1) in the multi-GPU notebook, whose last
\* layer is appended after the loop; for i in range(1, n_layers) in the
\* link-prediction notebook
HiddenCount(notebook, n_layers) ==
    IF notebook = "multi_gpu" THEN Max(0, n_layers - 2) ELSE Max(0, n_layers - 1)

\* SAGE.__init__: self.layers
SageLayers(notebook, n_layers) ==
    <<"SAGEConv(in_feats, n_hidden)">>
    \o HiddenLayers(HiddenCount(notebook, n_layers))
    \o (IF notebook = "multi_gpu"
        THEN <<"SAGEConv(n_hidden, n_classes)">> ELSE <<>>)

\* super().__init__(len(fanouts), return_eids=False): the number of blocks
\* the sampler makes for one minibatch
NumBlocks(fanouts) == Len(fanouts)

\* sample_frontier(block_id, g, seed_nodes):
\* dgl.sampling.sample_neighbors(g, seed_nodes, self.fanouts[block_id])
sample_frontier(fanouts, block_id) ==
    [block_id |-> block_id, fanout |-> fanouts[block_id + 1]]

FwdIdle ==
    /\ f_notebook = ""
    /\ f_fanouts = <<>>
    /\ f_n_layers = 0
    /\ f_layers = <<>>
    /\ f_pc = "idle"
    /\ f_block_id = 0
    /\ f_blocks = <<>>
    /\ f_l = 0
    /\ f_applied = <<>>

\* a sampler with any fanouts and a model with any number of layers, among
\* them the ones the notebooks construct
FwdInit ==
    /\ f_notebook \in Notebooks
    /\ f_fanouts \in UNION {[1..n -> 1..MaxFanout] : n \in 1..MaxLayers}
    /\ f_n_layers \in 1..MaxLayers
    /\ f_layers = SageLayers(f_notebook, f_n_layers)
    /\ f_pc = "sample"
    /\ f_block_id = NumBlocks(f_fanouts) - 1
    /\ f_blocks = <<>>
    /\ f_l = 0
    /\ f_applied = <<>>

\* the block sampler makes the blocks from the last layer to the first,
\* putting each in front of the ones made before
SampleBlock ==
    /\ f_pc = "sample"
    /\ f_block_id >= 0
    /\ f_blocks' = <<sample_frontier(f_fanouts, f_block_id)>> \o f_blocks
    /\ f_block_id' = f_block_id - 1
    /\ UNCHANGED <<f_notebook, f_fanouts, f_n_layers, f_layers, f_pc, f_l,
                   f_applied>>
    /\ UNCHANGED notFwd

\* the minibatch is complete: model(blocks, inputs)
CallForward ==
    /\ f_pc = "sample"
    /\ f_block_id < 0
    /\ f_pc' = "forward"
    /\ f_l' = 0
    /\ UNCHANGED <<f_notebook, f_fanouts, f_n_layers, f_layers, f_block_id,
                   f_blocks, f_applied>>
    /\ UNCHANGED notFwd

\* one turn of `for l, (layer, block) in enumerate(zip(self.layers, blocks))`:
\* x = layer(block, x), and relu unless l is n_layers - 1
ForwardLayer ==
    /\ f_pc = "forward"
    /\ f_l < Min(Len(f_layers), Len(f_blocks))
    /\ f_applied' = Append(f_applied,
                           [layer |-> f_layers[f_l + 1],
                            block_id |-> f_blocks[f_l + 1].block_id,
                            relu |-> f_l # f_n_layers - 1])
    /\ f_l' = f_l + 1
    /\ UNCHANGED <<f_notebook, f_fanouts, f_n_layers, f_layers, f_pc,
                   f_block_id, f_blocks>>
    /\ UNCHANGED notFwd

\* zip is exhausted (at the shorter of layers and blocks): return x
ForwardReturn ==
    /\ f_pc = "forward"
    /\ f_l = Min(Len(f_layers), Len(f_blocks))
    /\ f_pc' = "returned"
    /\ UNCHANGED <<f_notebook, f_fanouts, f_n_layers, f_layers, f_block_id,
                   f_blocks, f_l, f_applied>>
    /\ UNCHANGED notFwd

FwdNext ==
    \/ SampleBlock
    \/ CallForward
    \/ ForwardLayer
    \/ ForwardReturn

(***************************************************************************)
(* Distributed-basics notebook, its code cells run in order                *)
(***************************************************************************)
\* bounds: the number of nodes of the loaded graph and the scale of th.rand
MaxBasicNodes == 4

MaxRand == 2

\* emb([0,1,2,3]): the graph has at least these nodes
MinBasicNodes == 4

\* a plausible slip: the DistGraph cell run before the initialize cell
CellsGraphFirst ==
    <<"DistGraph", "initialize", "number_of_nodes", "ndata.keys",
      "ndata[train_mask]", "ndata[train_mask][0:10]", "ndata[orig_id][0:10]",
      "edata.keys", "DistTensor", "arr[0:10]", "DistTensor(init)",
      "arr[0:10]", "ndata[new_data]=arr", "DistEmbedding", "SparseAdagrad",
      "emb(no_grad)">>

\* the code cells that call the distributed API, in the order of the notebook
NotebookCells ==
    <<"initialize", "DistGraph", "number_of_nodes", "ndata.keys",
      "ndata[train_mask]", "ndata[train_mask][0:10]", "ndata[orig_id][0:10]",
      "edata.keys", "DistTensor", "arr[0:10]", "DistTensor(init)",
      "arr[0:10]", "ndata[new_data]=arr", "DistEmbedding", "SparseAdagrad",
      "emb(no_grad)">>

\* the cells that only read the DistGraph
GraphReads ==
    {"number_of_nodes", "ndata.keys", "ndata[train_mask]",
     "ndata[train_mask][0:10]", "ndata[orig_id][0:10]", "edata.keys"}

BasicIdle ==
    /\ b_cell = 0
    /\ b_initialized = FALSE
    /\ b_calls = <<>>
    /\ b_num_nodes = 0
    /\ b_arr = <<>>
    /\ b_ndata = {}
    /\ b_emb_made = FALSE
    /\ b_opt_made = FALSE
    /\ b_printed = <<>>

\* the kernel has run `import dgl`; the first API cell is next
BasicInit ==
    /\ b_cell = 1
    /\ b_initialized = FALSE
    /\ b_calls = <<>>
    /\ b_num_nodes = 0
    /\ b_arr = <<>>
    /\ b_ndata = {}
    /\ b_emb_made = FALSE
    /\ b_opt_made = FALSE
    /\ b_printed = <<>>

\* the next cell to run is `kind`
AtCell(kind) ==
    /\ b_cell <= Len(NotebookCells)
    /\ NotebookCells[b_cell] = kind

\* every call of the distributed API is logged with whether initialize had
\* been called; the cell is done and the next one is up
Called(kind) ==
    /\ b_calls' = Append(b_calls, [api |-> kind, initialized |-> b_initialized])
    /\ b_cell' = b_cell + 1

\* dgl.distributed.initialize('ip_config.txt')
Initialize ==
    /\ AtCell("initialize")
    /\ Called("initialize")
    /\ b_initialized' = TRUE
    /\ UNCHANGED <<b_num_nodes, b_arr, b_ndata, b_emb_made,
                   b_opt_made, b_printed>>
    /\ UNCHANGED notBasic

\* g = dgl.distributed.DistGraph('ogbn-products', part_config=...): the graph
\* of the partition file, with the node data loaded with it
CreateDistGraph ==
    /\ AtCell("DistGraph")
    /\ Called("DistGraph")
    /\ b_num_nodes' \in MinBasicNodes..MaxBasicNodes
    /\ b_ndata' = {"train_mask", "val_mask", "test_mask", "orig_id"}
    /\ UNCHANGED <<b_initialized, b_arr, b_emb_made, b_opt_made,
                   b_printed>>
    /\ UNCHANGED notBasic

\* the cells that print what they read from g
ReadDistGraph ==
    /\ \E kind \in GraphReads :
        /\ AtCell(kind)
        /\ Called(kind)
        /\ b_printed' = kind
    /\ UNCHANGED <<b_initialized, b_num_nodes, b_arr, b_ndata,
                   b_emb_made, b_opt_made>>
    /\ UNCHANGED notBasic

\* arr = dgl.distributed.DistTensor((g.number_of_nodes(),), th.float32):
\* initialized to 0
CreateDistTensor ==
    /\ AtCell("DistTensor")
    /\ Called("DistTensor")
    /\ b_arr' = [i \in 1..b_num_nodes |-> 0]
    /\ UNCHANGED <<b_initialized, b_num_nodes, b_ndata, b_emb_made,
                   b_opt_made, b_printed>>
    /\ UNCHANGED notBasic

\* arr = DistTensor(..., init_func=init) with init = th.rand(shape)
CreateDistTensorInit ==
    /\ AtCell("DistTensor(init)")
    /\ Called("DistTensor(init)")
    /\ b_arr' \in [1..b_num_nodes -> 0..MaxRand]
    /\ UNCHANGED <<b_initialized, b_num_nodes, b_ndata, b_emb_made,
                   b_opt_made, b_printed>>
    /\ UNCHANGED notBasic

\* arr[0:10]
SliceDistTensor ==
    /\ AtCell("arr[0:10]")
    /\ Called("arr[0:10]")
    /\ b_printed' = PySlice(b_arr, 0, 10)
    /\ UNCHANGED <<b_initialized, b_num_nodes, b_arr, b_ndata,
                   b_emb_made, b_opt_made>>
    /\ UNCHANGED notBasic

\* g.ndata['new_data'] = arr
AssignNodeData ==
    /\ AtCell("ndata[new_data]=arr")
    /\ Called("ndata[new_data]=arr")
    /\ b_ndata' = b_ndata \cup {"new_data"}
    /\ UNCHANGED <<b_initialized, b_num_nodes, b_arr, b_emb_made,
                   b_opt_made, b_printed>>
    /\ UNCHANGED notBasic

\* emb = dgl.distributed.DistEmbedding(g.number_of_nodes(), 10, init_func=init)
CreateDistEmbedding ==
    /\ AtCell("DistEmbedding")
    /\ Called("DistEmbedding")
    /\ b_emb_made' = TRUE
    /\ UNCHANGED <<b_initialized, b_num_nodes, b_arr, b_ndata,
                   b_opt_made, b_printed>>
    /\ UNCHANGED notBasic

\* optimizer = SparseAdagrad([emb], lr=0.001); feats = emb([0,1,2,3]);
\* loss.backward(); optimizer.step().  The rows of the table live in the
\* library's store and are not part of this state.
SparseAdagradStep ==
    /\ AtCell("SparseAdagrad")
    /\ Called("SparseAdagrad")
    /\ b_opt_made' = TRUE
    /\ b_printed' = "feats"
    /\ UNCHANGED <<b_initialized, b_num_nodes, b_arr, b_ndata,
                   b_emb_made>>
    /\ UNCHANGED notBasic

\* with th.no_grad(): print(emb([0, 1, 2, 3]))
ReadDistEmbedding ==
    /\ AtCell("emb(no_grad)")
    /\ Called("emb(no_grad)")
    /\ b_printed' = "emb"
    /\ UNCHANGED <<b_initialized, b_num_nodes, b_arr, b_ndata,
                   b_emb_made, b_opt_made>>
    /\ UNCHANGED notBasic

BasicNext ==
    \/ Initialize
    \/ CreateDistGraph
    \/ ReadDistGraph
    \/ CreateDistTensor
    \/ CreateDistTensorInit
    \/ SliceDistTensor
    \/ AssignNodeData
    \/ CreateDistEmbedding
    \/ SparseAdagradStep
    \/ ReadDistEmbedding

(***************************************************************************)
(* Specifications                                                          *)
(***************************************************************************)
InitPartition ==
    PartInit /\ NegIdle /\ LinkIdle /\ DdpIdle /\ FwdIdle /\ BasicIdle

SpecPartition == InitPartition /\ [][PartNext]_vars

InitNegativeSampler ==
    NegInit /\ PartIdle /\ LinkIdle /\ DdpIdle /\ FwdIdle /\ BasicIdle

SpecNegativeSampler == InitNegativeSampler /\ [][NegNext]_vars

InitLinkLoop ==
    LinkInit /\ PartIdle /\ NegIdle /\ DdpIdle /\ FwdIdle /\ BasicIdle

SpecLinkLoop == InitLinkLoop /\ [][LinkNext]_vars

InitMultiGpu ==
    DdpInit /\ PartIdle /\ NegIdle /\ LinkIdle /\ FwdIdle /\ BasicIdle

SpecMultiGpu == InitMultiGpu /\ [][DdpNext]_vars

\* every started process keeps running and the main cell keeps running
FairSpecMultiGpu ==
    /\ InitMultiGpu /\ [][DdpNextUnrecorded]_vars
    /\ \A rank \in Ranks : WF_vars(RankStepUnrecorded(rank))
    /\ WF_vars(MainStep)

InitForward ==
    FwdInit /\ PartIdle /\ NegIdle /\ LinkIdle /\ DdpIdle /\ BasicIdle

SpecForward == InitForward /\ [][FwdNext]_vars

InitBasics ==
    BasicInit /\ PartIdle /\ NegIdle /\ LinkIdle /\ DdpIdle /\ FwdIdle

SpecBasics == InitBasics /\ [][BasicNext]_vars

(***************************************************************************)
(* Properties                                                              *)
(***************************************************************************)
AllLoadersCreated ==
    p_world_size > 0 /\ DOMAIN p_loaders = 0..(p_world_size - 1)

\* the indices of nids that the loader of a rank iterates over
IndexRange(loader) ==
    {loader.partition_offset + i : i \in 0..(Len(loader.nids) - 1)}

\* C1 (as stated): once every rank has created its training loader, the node
\* IDs of all the loaders together are all the node IDs of nids.
C1_EveryNodeHandled ==
    AllLoadersCreated =>
        UNION {Range(p_loaders[r].nids) : r \in DOMAIN p_loaders} = Range(p_nids)

\* C2: the loaders of two distinct ranks iterate over disjoint index ranges
\* of nids, every range lies inside 0..len(nids)-1, holds exactly
\* len(nids) // world_size indices, and the loader's node IDs are the ones
\* of nids at those indices.
C2_PartitionsDisjoint ==
    \A r1 \in DOMAIN p_loaders :
        LET l1 == p_loaders[r1] IN
        /\ IndexRange(l1) \subseteq 0..(Len(p_nids) - 1)
        /\ Cardinality(IndexRange(l1)) = Len(p_nids) \div p_world_size
        /\ \A i \in 1..Len(l1.nids) :
               l1.nids[i] = p_nids[l1.partition_offset + i]
        /\ \A r2 \in DOMAIN p_loaders :
               r1 # r2 => IndexRange(l1) \cap IndexRange(p_loaders[r2]) = {}

\* every rank of a group of several has its loader, each over several nodes,
\* and the ranks do not divide the list evenly
C2_Witness ==
    /\ AllLoadersCreated
    /\ p_world_size >= 2
    /\ Len(p_nids) % p_world_size # 0
    /\ \A r \in DOMAIN p_loaders : Len(p_loaders[r].nids) >= 2

\* C3 (as stated): no pair (src[j], dst[j]) returned by the negative sampler
\* is an edge of the graph.
C3_NegativesAreNonEdges ==
    \A c \in 1..Len(n_result) :
        \A j \in 1..Len(n_result[c].src) :
            <<n_result[c].src[j], n_result[c].dst[j]>> \notin EdgeSet(n_graph)

\* C4: for a minibatch of n edge IDs the sampler returns src and dst of
\* length k*n each, and src[j] is the source of edge eids[j div k].
C4_KNegativesPerPositive ==
    \A c \in 1..Len(n_result) :
        LET n == Len(n_eids)
            r == n_result[c]
        IN  /\ Len(r.src) = n_k * n
            /\ Len(r.dst) = n_k * n
            /\ \A j \in 0..(n_k * n - 1) :
                   r.src[j + 1] = Src(n_graph[n_eids[(j \div n_k) + 1] + 1])

\* the sampler was called with k = 2 on two edges with different sources
C4_Witness ==
    /\ Len(n_result) = 1
    /\ n_k = 2
    /\ Len(n_eids) = 2
    /\ Src(n_graph[n_eids[1] + 1]) # Src(n_graph[n_eids[2] + 1])

\* C5 (as stated): in every epoch the call of evaluate returns, and the loop
\* only stops at the end of epoch 9.
C5_EveryEpochEvaluates ==
    /\ l_raised = ""
    /\ l_pc \in {"idle", "train", "done"}
    /\ l_pc = "done" => l_epoch = LinkEpochs

\* C6: best_accuracy is the maximum of 0 and the validation accuracies seen
\* so far and never decreases; model.pt, once written, holds the parameters
\* as they were at the validation of the first epoch whose accuracy equals
\* best_accuracy; it is not written while every accuracy seen is 0.
C6_BestCheckpoint ==
    /\ [](d_best_accuracy = SetMax({0} \cup d_seen))
    /\ [][d_best_accuracy' >= d_best_accuracy]_vars
    /\ [](d_model_pt # <<>> =>
            /\ d_model_pt[1].epoch = d_first_at_max
            /\ d_model_pt[1].params =
                   (d_first_at_max + 1) * TrainLoader(0, d_train_len).num_batches)
    /\ [](d_seen \subseteq {0} => d_model_pt = <<>>)

\* model.pt was written in an epoch after the first, the parameters had been
\* trained, and two later validations (one as good, one worse) left it alone
C6_Witness ==
    /\ d_model_pt # <<>>
    /\ d_model_pt[1].epoch >= 1
    /\ d_model_pt[1].params >= 2
    /\ Cardinality(d_seen) = MaxAcc + 1
    /\ d_epoch[0] >= d_model_pt[1].epoch + 3
    /\ d_best_accuracy = MaxAcc

\* C8: every call of the distributed API other than initialize itself is
\* made after initialize has been called, and initialize is the first call.
C8_InitializeFirst ==
    /\ \A i \in 1..Len(b_calls) :
           b_calls[i].api # "initialize" => b_calls[i].initialized
    /\ b_calls # <<>> => b_calls[1].api = "initialize"

\* every cell has run, the last ones on the DistEmbedding and its optimizer
C8_Witness ==
    /\ b_cell = Len(NotebookCells) + 1
    /\ Len(b_calls) = Len(NotebookCells)
    /\ b_emb_made
    /\ b_opt_made

\* C9: the main cell's join on every worker eventually returns, and a
\* worker that has finished has run all 10 epochs and called
\* torch.distributed.barrier 1 + 2 * 10 times.
C9_AllWorkersFinish ==
    /\ <>(m_pc = "joined")
    /\ [](\A r \in DOMAIN d_pc :
              d_pc[r] = "done" =>
                  /\ d_epoch[r] = DdpEpochs
                  /\ d_nbarrier[r] = 1 + 2 * DdpEpochs)

\* all four workers are done, after epochs with minibatches, and joined
C9_Witness ==
    /\ m_pc = "joined"
    /\ m_joined = WorldSize
    /\ \A r \in Ranks : d_pc[r] = "done" /\ d_params[r] = DdpEpochs

\* the sampler and the model are the ones the notebooks construct
NotebookConfig == f_fanouts = SamplerFanouts /\ f_n_layers = ModelLayers

\* C10: with the sampler [4, 4, 4] and the 3-layer model of either notebook,
\* a minibatch carries one block per layer, block i sampled with fanout
\* fanouts[i], and forward applies every layer, each to its own block, with
\* relu after all but the last.
C10_OneBlockPerLayer ==
    NotebookConfig =>
        /\ Len(f_layers) = ModelLayers
        /\ NumBlocks(f_fanouts) = Len(f_layers)
        /\ f_pc \in {"forward", "returned"} =>
               /\ Len(f_blocks) = Len(f_layers)
               /\ \A i \in 1..Len(f_blocks) :
                      /\ f_blocks[i].block_id = i - 1
                      /\ f_blocks[i].fanout = SamplerFanouts[i]
        /\ f_pc = "returned" =>
               /\ Len(f_applied) = Len(f_layers)
               /\ \A i \in 1..Len(f_applied) :
                      /\ f_applied[i].layer = f_layers[i]
                      /\ f_applied[i].block_id = i - 1
                      /\ f_applied[i].relu = (i # Len(f_layers))

\* forward has returned on a minibatch of the multi-GPU notebook's sampler
C10_Witness ==
    /\ NotebookConfig
    /\ f_notebook = "multi_gpu"
    /\ f_pc = "returned"
    /\ Len(f_applied) = 3

====
